---- MODULE Spec2Model ----
(***************************************************************************)
(* Model of the multi-agent retrieval pipeline of                          *)
(* backend/retriever/agents: the LangGraph StateGraph built by build_graph *)
(* (graph.py), the node functions it registers (nodes.py) and the shared   *)
(* RetrieverState they update (state.py).                                  *)
(*                                                                         *)
(* One run of run_pipeline is modelled.  pc is the node the graph will     *)
(* execute next; every action is one node function together with the      *)
(* state merge LangGraph applies to its partial update (operator.add for   *)
(* the annotated list channels, overwrite for the others) and the edge or  *)
(* conditional edge that leaves the node.                                  *)
(*                                                                         *)
(* External services (chat model, vector store, cross-encoder) are         *)
(* nondeterministic: each call either raises or returns a value of its     *)
(* declared type drawn from a small set.                                   *)
(***************************************************************************)
EXTENDS Integers, Sequences, FiniteSets, TLC

----------------------------------------------------------------------------
(* Bounds *)

\* number of documents in the collection
NumDocs == 2
\* largest top_k a caller passes
MaxTopK == 1
\* largest reranker_top_n a caller passes
MaxTopN == 1
\* most lines the expansion model answers with
MaxLines == 1

\* calls of run_pipeline a caller makes with one AgentConfig object
MaxRuns == 2

\* threads that call get_compiled_graph
MaxThreads == 2

\* calls of get_compiled_graph a thread makes
MaxCalls == 2

\* times the broker delivers a run_query_pipeline message again after it
\* was processed
MaxRedeliveries == 1

----------------------------------------------------------------------------
(* Values *)

\* Python None in RetrieverState.error
None == "None"

\* the empty dict {}
EmptyDict == [k \in {} |-> ""]

\* the user's query (query / original_query; never rewritten by any node)
Query == "q0"

\* the retrieval methods the analysis prompt offers
Methods == {"vector", "bm25", "hybrid", "self_query", "hypothetical_questions"}

\* retrieval_method strings the analysis model may answer with: the five
\* methods, the route name "expand", an unknown name and the empty string
AnalyzerMethods == Methods \cup {"expand", "foo", ""}

\* filters the analysis model may answer with; the year "abc" makes
\* int(filters["year"]) raise in _build_chroma_where
AnalyzerFilters == {EmptyDict, [year |-> "2023"], [year |-> "abc"]}

\* a Document: the collection entry it came from and whether its content is
\* the raw page content or a passage extracted by the compressor
RawDoc(i) == [id |-> i, form |-> "raw"]
ExtractOf(d) == [id |-> d.id, form |-> "extract"]
Collection == {RawDoc(i) : i \in 1..NumDocs}

\* strings the chat model may return as the answer (response.content is a
\* str; nothing in the node constrains it to be non-empty)
AnswerContents == {"", "generated answer"}


\* raw lines the expansion model may answer with ("\n"-separated)
RawLines == {"", "1. q1", "- q0"}

----------------------------------------------------------------------------
(* Python helpers *)

Min(a, b) == IF a < b THEN a ELSE b

Range(s) == {s[i] : i \in 1..Len(s)}

\* s[:n] for n >= 0
Take(s, n) == SubSeq(s, 1, Min(n, Len(s)))

\* a or b, for lists
Or(a, b) == IF a # <<>> THEN a ELSE b

\* s is an initial segment of t
IsPrefix(s, t) == Len(s) <= Len(t) /\ SubSeq(t, 1, Len(s)) = s

\* all sequences over S of length at most n
SeqsUpTo(S, n) == UNION {[1..k -> S] : k \in 0..n}

\* all duplicate-free sequences over S of length at most n
DistinctSeqsUpTo(S, n) ==
    {s \in SeqsUpTo(S, n) : \A i, j \in 1..Len(s) : i # j => s[i] # s[j]}

\* q.strip() is empty
IsBlank(line) == line = ""

\* q.strip().lstrip("0123456789.-) ")
StripMarker(line) ==
    CASE line = "1. q1" -> "q1"
      [] line = "- q0" -> "q0"
      [] OTHER -> line

----------------------------------------------------------------------------
(* RetrieverState and AgentConfig *)

VARIABLES
    pc,                  \* node the compiled graph runs next, or "END" / "RAISED"
    config,              \* state["config"]: the AgentConfig of the run
    retrieval_method,
    filters,
    expanded_queries,
    documents,
    reranked_documents,
    compressed_documents,
    final_documents,
    answer,
    agent_messages,
    execution_trace,
    error,
    metadata,            \* state["metadata"]
    caller_config,       \* the field values the caller gave the AgentConfig
                         \* object it passes to run_pipeline
    run,                 \* which call of run_pipeline this is
    call,                \* the last call of a tool or service function
    query_rows,          \* the rows of the Query table (their ids)
    result_rows,         \* the rows of the QueryResult table
    job,                 \* the run_query_pipeline message and its progress
    compiled_graph,      \* graph.py's module-level _compiled_graph
    instances,           \* the compiled graphs built so far
    callers              \* the threads inside get_compiled_graph

vars == <<pc, config, retrieval_method, filters, expanded_queries, documents,
          reranked_documents, compressed_documents, final_documents, answer,
          agent_messages, execution_trace, error, metadata, caller_config,
          run, call, query_rows, result_rows, job, compiled_graph, instances,
          callers>>

\* the database tables and the job queue
job_vars == <<query_rows, result_rows, job>>

\* the graph singleton and the threads that ask for it
graph_vars == <<compiled_graph, instances, callers>>

\* the state of a run of the pipeline
run_vars == <<pc, config, retrieval_method, filters, expanded_queries,
              documents, reranked_documents, compressed_documents,
              final_documents, answer, agent_messages, execution_trace, error,
              metadata, caller_config, run>>

\* the variables a node of the graph never touches
outside == <<caller_config, run, call, job_vars, graph_vars>>

\* no tool or service function has been called
NoCall == [fn |-> "none"]

\* no query request has been made
NoJob == [state |-> "none"]

\* the threads of the process that may call get_compiled_graph
Threads == 1..MaxThreads

\* a thread that is not inside get_compiled_graph
Outside == [at |-> "outside", calls |-> 0, result |-> 0]

\* the AgentConfig values a caller may pass to run_pipeline
AgentConfig ==
    [use_reranking : BOOLEAN,
     use_compression : BOOLEAN,
     use_query_expansion : BOOLEAN,
     use_hypothetical_questions : BOOLEAN,
     top_k : 1..MaxTopK,
     reranker_top_n : 1..MaxTopN]

\* an agent_messages entry: the agent, the kind of its message ("Error" on
\* a node's failure path) and the value the message text reports
MessageAbout(agent, message, about) ==
    [agent |-> agent, message |-> message, about |-> about]
Message(agent, message) == MessageAbout(agent, message, "")

\* operator.add on the execution_trace channel
execution_trace_overwrite(old, update) == update
execution_trace_add(old, update) == old \o update

\* operator.add on the agent_messages channel
agent_messages_add(old, update) == old \o update

\* operator.add on the documents channel
documents_add(old, update) == old \o update

\* run_pipeline: initial_state handed to compiled.invoke; START -> query_analyzer
Init ==
    /\ pc = "query_analyzer"
    /\ config \in AgentConfig
    /\ retrieval_method = ""
    /\ filters = EmptyDict
    /\ expanded_queries = <<>>
    /\ documents = <<>>
    /\ reranked_documents = <<>>
    /\ compressed_documents = <<>>
    /\ final_documents = <<>>
    /\ answer = ""
    /\ agent_messages = <<>>
    /\ execution_trace = <<>>
    /\ error = None
    /\ metadata = EmptyDict
    /\ caller_config = config
    /\ run = 1
    /\ call = NoCall
    /\ query_rows = {}
    /\ result_rows = {}
    /\ job = NoJob
    /\ compiled_graph = 0
    /\ instances = <<>>
    /\ callers = [t \in Threads |-> Outside]

----------------------------------------------------------------------------
(* Edges of build_graph *)

\* graph.add_edge("query_analyzer", "supervisor")
AnalyzerNext == "supervisor"

\* _route_from_supervisor
route_from_supervisor_raw(method) == method
route_from_supervisor(method) ==
    IF method \notin {"expand", "vector", "bm25", "hybrid", "self_query",
                      "hypothetical_questions"}
    THEN "vector"
    ELSE method

\* the path map of the supervisor's conditional edges; a route that is not
\* a key of the map makes LangGraph raise, which ends the run
SupervisorPathMap_hybridToBm25(route) ==
    CASE route = "expand" -> "query_expander"
      [] route = "vector" -> "vector_retriever"
      [] route = "bm25" -> "bm25_retriever"
      [] route = "hybrid" -> "bm25_retriever"
      [] route = "self_query" -> "self_query_constructor"
      [] route = "hypothetical_questions" -> "hypothetical_question_retriever"
      [] OTHER -> "RAISED"
SupervisorPathMap(route) ==
    CASE route = "expand" -> "query_expander"
      [] route = "vector" -> "vector_retriever"
      [] route = "bm25" -> "bm25_retriever"
      [] route = "hybrid" -> "hybrid_merger"
      [] route = "self_query" -> "self_query_constructor"
      [] route = "hypothetical_questions" -> "hypothetical_question_retriever"
      [] OTHER -> "RAISED"

\* graph.add_edge("query_expander", "vector_retriever")
ExpanderNext_toSupervisor == "supervisor"
ExpanderNext_toAnswer == "answer_generator"
ExpanderNext == "vector_retriever"

\* _route_after_retrieval (the path map is the identity on its three routes)
route_after_retrieval_compressFirst(cfg) ==
    IF cfg.use_compression THEN "compressor"
    ELSE IF cfg.use_reranking THEN "reranker"
    ELSE "answer_generator"
route_after_retrieval(cfg) ==
    IF cfg.use_reranking THEN "reranker"
    ELSE IF cfg.use_compression THEN "compressor"
    ELSE "answer_generator"

\* _route_after_reranker
route_after_reranker_skip(cfg) == "answer_generator"
route_after_reranker(cfg) ==
    IF cfg.use_compression THEN "compressor" ELSE "answer_generator"

\* graph.add_edge("compressor", "answer_generator")
CompressorNext_toEnd == "END"
CompressorNext == "answer_generator"

\* graph.add_edge("answer_generator", END)
AnswerNext == "END"

RetrievalNodes ==
    {"vector_retriever", "bm25_retriever", "hybrid_merger",
     "self_query_constructor", "hypothetical_question_retriever"}

----------------------------------------------------------------------------
(* Nodes *)

\* query_analyzer_node.  parsed = FALSE is a response _safe_parse_json turns
\* into {} (every analysis.get then yields its default); failed = TRUE is
\* any exception inside the try block.
query_analyzer_node ==
    /\ pc = "query_analyzer"
    /\ \/ \E parsed \in BOOLEAN, m \in AnalyzerMethods, f \in AnalyzerFilters,
             needs_expansion \in BOOLEAN :
            /\ ~parsed => (m = "vector" /\ f = EmptyDict /\ ~needs_expansion)
            /\ retrieval_method' = m
            /\ filters' = f
            /\ config' = IF needs_expansion
                         THEN [config EXCEPT !.use_query_expansion = TRUE]
                         ELSE config
            /\ agent_messages' = agent_messages_add(agent_messages,
                                     <<MessageAbout("query_analyzer", "Selected", m)>>)
            /\ metadata' = [query_analysis |->
                               IF parsed
                               THEN [retrieval_method |-> m, filters |-> f,
                                     needs_expansion |-> needs_expansion]
                               ELSE EmptyDict]
            /\ error' = error
       \/ /\ retrieval_method' = "vector"
          /\ filters' = EmptyDict
          /\ config' = config
          /\ metadata' = metadata
          /\ error' = "Query analysis failed"
          /\ agent_messages' = agent_messages_add(agent_messages,
                                   <<Message("query_analyzer", "Error")>>)
    /\ execution_trace' = execution_trace_add(execution_trace, <<"query_analyzer">>)
    /\ pc' = AnalyzerNext
    /\ UNCHANGED <<expanded_queries, documents, reranked_documents,
                   compressed_documents, final_documents, answer, outside>>

\* supervisor_node, lines 923-932: the action the supervisor decides on
next_action_expandWins(cfg, method, trace) ==
    IF cfg.use_query_expansion /\ "query_expander" \notin Range(trace)
    THEN "expand"
    ELSE IF cfg.use_hypothetical_questions THEN "hypothetical_questions"
    ELSE method
next_action_expandAfter(cfg, method, trace) ==
    IF cfg.use_hypothetical_questions THEN "hypothetical_questions"
    ELSE IF cfg.use_query_expansion /\ "query_expander" \in Range(trace)
    THEN "expand"
    ELSE method
next_action_noExpand(cfg, method, trace) ==
    IF cfg.use_hypothetical_questions THEN "hypothetical_questions" ELSE method
next_action(cfg, method, trace) ==
    IF cfg.use_hypothetical_questions THEN "hypothetical_questions"
    ELSE IF cfg.use_query_expansion /\ "query_expander" \notin Range(trace)
    THEN "expand"
    ELSE method

\* supervisor_node, then the conditional edge _route_from_supervisor
supervisor_node ==
    /\ pc = "supervisor"
    /\ retrieval_method' = next_action(config, retrieval_method, execution_trace)
    /\ agent_messages' = agent_messages_add(agent_messages,
                             <<MessageAbout("supervisor", "Routing to",
                                            retrieval_method')>>)
    /\ execution_trace' = execution_trace_add(execution_trace, <<"supervisor">>)
    /\ pc' = SupervisorPathMap(route_from_supervisor(retrieval_method'))
    /\ UNCHANGED <<outside, metadata, config, filters, expanded_queries, documents,
                   reranked_documents, compressed_documents, final_documents,
                   answer, error>>


\* the list comprehension of query_expander_node: non-blank lines, each
\* stripped of its enumeration marker
RECURSIVE CleanLines(_)
CleanLines(lines) ==
    IF lines = <<>> THEN <<>>
    ELSE LET rest == CleanLines(Tail(lines))
         IN IF IsBlank(Head(lines)) THEN rest
            ELSE <<StripMarker(Head(lines))>> \o rest

\* "if query not in expanded: expanded.insert(0, query)"
WithOriginal(query, expanded) ==
    IF query \notin Range(expanded) THEN <<query>> \o expanded ELSE expanded

\* query_expander_node
query_expander_node ==
    /\ pc = "query_expander"
    /\ \/ \E lines \in SeqsUpTo(RawLines, MaxLines) :
            /\ expanded_queries' = WithOriginal(Query, CleanLines(lines))
            /\ error' = error
            /\ agent_messages' = agent_messages_add(agent_messages,
                                     <<Message("query_expander", "Generated")>>)
       \/ /\ expanded_queries' = <<Query>>
          /\ error' = "Query expansion failed"
          /\ agent_messages' = agent_messages_add(agent_messages,
                                   <<Message("query_expander", "Error")>>)
    /\ execution_trace' = execution_trace_add(execution_trace, <<"query_expander">>)
    /\ pc' = ExpanderNext
    /\ UNCHANGED <<outside, metadata, config, retrieval_method, filters, documents,
                   reranked_documents, compressed_documents, final_documents,
                   answer>>

\* _build_chroma_where raises: int(filters["year"]) on a year that is not a
\* number
build_chroma_where_raises(f) ==
    /\ f # EmptyDict
    /\ "year" \in DOMAIN f
    /\ f["year"] \notin {"2023"}

\* a stored chunk whose text is that of d with white space around it
Padded(d) == [id |-> d.id + NumDocs, form |-> "padded"]

\* doc.page_content: the text (named by the collection entry it is the
\* text of), its form, and the white space in front of and behind it
page_content(doc) ==
    IF doc.form = "padded"
    THEN [text |-> doc.id - NumDocs, form |-> "raw", space |-> TRUE]
    ELSE [text |-> doc.id, form |-> doc.form, space |-> FALSE]

\* str.strip()
strip(content) == [content EXCEPT !.space = FALSE]

\* content_key = doc.page_content.strip()
content_key_untrimmed(doc) == page_content(doc)
content_key(doc) == strip(page_content(doc))

\* the seen_contents loop of vector_retriever_node: results in order, a
\* document kept only the first time its content key is seen
RECURSIVE Dedup(_, _)
Dedup(acc, docs) ==
    IF docs = <<>> THEN acc
    ELSE Dedup(IF content_key(Head(docs)) \in {content_key(d) : d \in Range(acc)}
               THEN acc ELSE Append(acc, Head(docs)),
               Tail(docs))

\* concatenation of the per-query result lists results[1], ..., results[n]
RECURSIVE Concat(_)
Concat(results) ==
    IF results = <<>> THEN <<>> ELSE Head(results) \o Concat(Tail(results))

\* what one similarity search / BM25 query with limit k may return
SearchResults(k) == DistinctSeqsUpTo(Collection, k)

\* the part every retrieval node shares: its entry in the trace, its
\* message and the conditional edge _route_after_retrieval
RetrievalDone_clearsError(node, docs, failed, note) ==
    /\ documents' = documents_add(documents, docs)
    /\ error' = IF failed THEN note ELSE None
    /\ agent_messages' = agent_messages_add(agent_messages,
                             <<Message(node, IF failed THEN "Error" ELSE note)>>)
    /\ execution_trace' = execution_trace_add(execution_trace, <<node>>)
    /\ pc' = route_after_retrieval(config)
    /\ UNCHANGED <<outside, metadata, config, retrieval_method, filters, expanded_queries,
                   reranked_documents, compressed_documents, final_documents,
                   answer>>
RetrievalDone(node, docs, failed, note) ==
    /\ documents' = documents_add(documents, docs)
    /\ error' = IF failed THEN note ELSE error
    /\ agent_messages' = agent_messages_add(agent_messages,
                             <<Message(node, IF failed THEN "Error" ELSE note)>>)
    /\ execution_trace' = execution_trace_add(execution_trace, <<node>>)
    /\ pc' = route_after_retrieval(config)
    /\ UNCHANGED <<outside, metadata, config, retrieval_method, filters, expanded_queries,
                   reranked_documents, compressed_documents, final_documents,
                   answer>>

\* vector_retriever_node
vector_retriever_node ==
    /\ pc = "vector_retriever"
    /\ LET queries == Or(expanded_queries, <<Query>>)
       IN \/ /\ ~build_chroma_where_raises(filters)
             /\ \E results \in [1..Len(queries) -> SearchResults(config.top_k)] :
                    RetrievalDone("vector_retriever",
                                  Dedup(<<>>, Concat(results)), FALSE, "Retrieved")
          \/ RetrievalDone("vector_retriever", <<>>, TRUE,
                           "Vector retrieval failed")

\* bm25_retriever_node
bm25_retriever_node ==
    /\ pc = "bm25_retriever"
    /\ \/ RetrievalDone("bm25_retriever", <<>>, FALSE, "No documents in collection")
       \/ \E docs \in SearchResults(config.top_k) :
              RetrievalDone("bm25_retriever", docs, FALSE, "BM25 returned")
       \/ RetrievalDone("bm25_retriever", <<>>, TRUE, "BM25 retrieval failed")

\* all orderings of the entries of the sequence s
Orderings(s) ==
    {[i \in 1..Len(s) |-> s[p[i]]] :
        p \in {q \in [1..Len(s) -> 1..Len(s)] :
                  \A i, j \in 1..Len(s) : i # j => q[i] # q[j]}}

\* hybrid_merger_node: EnsembleRetriever over a BM25 retriever and a vector
\* retriever, each limited to top_k; the ensemble returns every distinct
\* document of the two lists, ordered by fused rank
hybrid_merger_node ==
    /\ pc = "hybrid_merger"
    /\ \/ RetrievalDone("hybrid_merger", <<>>, FALSE, "No corpus documents")
       \/ \E b \in SearchResults(config.top_k), v \in SearchResults(config.top_k) :
            \E docs \in Orderings(Dedup(<<>>, b \o v)) :
              RetrievalDone("hybrid_merger", docs, FALSE, "Hybrid returned")
       \/ RetrievalDone("hybrid_merger", <<>>, TRUE, "Hybrid merge failed")

\* self_query_constructor_node: docs[: config.top_k] of what the
\* SelfQueryRetriever returns
self_query_constructor_node ==
    /\ pc = "self_query_constructor"
    /\ \/ \E docs \in SearchResults(NumDocs) :
              RetrievalDone("self_query_constructor", Take(docs, config.top_k),
                            FALSE, "Self-query retrieval returned")
       \/ RetrievalDone("self_query_constructor", <<>>, TRUE,
                        "Self-query construction failed")

\* hypothetical_question_node: the parent chunks of the top_k best matching
\* hypothetical-question documents
hypothetical_question_node ==
    /\ pc = "hypothetical_question_retriever"
    /\ \/ RetrievalDone("hypothetical_question_retriever", <<>>, FALSE,
                        "No source documents")
       \/ \E parents \in SeqsUpTo(Collection, config.top_k) :
              RetrievalDone("hypothetical_question_retriever", parents, FALSE,
                            "HQ retrieval returned")
       \/ RetrievalDone("hypothetical_question_retriever", <<>>, TRUE,
                        "Hypothetical question retrieval failed")


\* reranker_node, lines 709-711: scored_docs[: config.reranker_top_n]
top_docs_all(scored_docs, top_n) == scored_docs
top_docs(scored_docs, top_n) == Take(scored_docs, top_n)

\* reranker_node: sort by cross-encoder score (any scores, hence any order),
\* keep reranker_top_n; on failure keep the first reranker_top_n as they are
reranker_node ==
    /\ pc = "reranker"
    /\ LET docs == documents
       IN \/ /\ docs = <<>>
             /\ reranked_documents' = <<>>
             /\ error' = error
             /\ agent_messages' = agent_messages_add(agent_messages,
                                      <<Message("reranker", "No documents")>>)
          \/ /\ docs # <<>>
             /\ \E scored_docs \in Orderings(docs) :
                    reranked_documents' =
                        top_docs(scored_docs, config.reranker_top_n)
             /\ error' = error
             /\ agent_messages' = agent_messages_add(agent_messages,
                                      <<Message("reranker", "Reranked")>>)
          \/ /\ docs # <<>>
             /\ reranked_documents' = Take(docs, config.reranker_top_n)
             /\ error' = "Reranking failed"
             /\ agent_messages' = agent_messages_add(agent_messages,
                                      <<Message("reranker", "Error")>>)
    /\ execution_trace' = execution_trace_add(execution_trace, <<"reranker">>)
    /\ pc' = route_after_reranker(config)
    /\ UNCHANGED <<outside, metadata, config, retrieval_method, filters, expanded_queries,
                   documents, compressed_documents, final_documents, answer>>

\* what compressing one document may do: the extractor returns a passage,
\* returns nothing (no relevant passage), or raises and the original is kept
CompressOutcomes == {"extract", "drop", "keep"}

\* the per-document loop of compressor_node
RECURSIVE CompressAll(_, _)
CompressAll(docs, outcome) ==
    IF docs = <<>> THEN <<>>
    ELSE LET d == Head(docs)
             o == outcome[1]
             rest == CompressAll(Tail(docs), Tail(outcome))
         IN CASE o = "extract" -> <<ExtractOf(d)>> \o rest
              [] o = "drop" -> rest
              [] OTHER -> <<d>> \o rest

\* compressor_node
compressor_node ==
    /\ pc = "compressor"
    /\ LET docs == Or(reranked_documents, documents)
       IN \/ /\ docs = <<>>
             /\ compressed_documents' = <<>>
             /\ error' = error
             /\ agent_messages' = agent_messages_add(agent_messages,
                                      <<Message("compressor", "No documents")>>)
          \/ /\ docs # <<>>
             /\ \E outcome \in [1..Len(docs) -> CompressOutcomes] :
                    compressed_documents' = CompressAll(docs, outcome)
             /\ error' = error
             /\ agent_messages' = agent_messages_add(agent_messages,
                                      <<Message("compressor", "Compressed")>>)
          \/ /\ docs # <<>>
             /\ compressed_documents' = docs
             /\ error' = "Compression failed"
             /\ agent_messages' = agent_messages_add(agent_messages,
                                      <<Message("compressor", "Error")>>)
    /\ execution_trace' = execution_trace_add(execution_trace, <<"compressor">>)
    /\ pc' = CompressorNext
    /\ UNCHANGED <<outside, metadata, config, retrieval_method, filters, expanded_queries,
                   documents, reranked_documents, final_documents, answer>>

\* answer_generator_node, lines 833-838: compressed or reranked or raw
best_documents_rerankedFirst(compressed, reranked, raw) ==
    Or(reranked, Or(compressed, raw))
best_documents(compressed, reranked, raw) == Or(compressed, Or(reranked, raw))

\* the fixed answer when there is no document
NoDocumentsAnswer == "I could not find any relevant documents"

\* the answer when the completion call fails
GenerationErrorAnswer == "An error occurred while generating the answer"

\* "if not docs": the early return that precedes _get_llm()
no_documents_never(docs) == FALSE
no_documents(docs) == docs = <<>>

\* answer_generator_node; the completion provider is invoked on the second
\* and third return path only
answer_generator_node ==
    /\ pc = "answer_generator"
    /\ LET docs == best_documents(compressed_documents, reranked_documents,
                                  documents)
       IN \/ /\ no_documents(docs)
             /\ answer' = NoDocumentsAnswer
             /\ final_documents' = <<>>
             /\ error' = error
             /\ agent_messages' = agent_messages_add(agent_messages,
                                      <<Message("answer_generator", "No documents")>>)
          \/ /\ ~no_documents(docs)
             /\ \E content \in AnswerContents : answer' = content
             /\ final_documents' = docs
             /\ error' = error
             /\ agent_messages' = agent_messages_add(agent_messages,
                                      <<Message("answer_generator", "Generated")>>)
          \/ /\ ~no_documents(docs)
             /\ answer' = GenerationErrorAnswer
             /\ final_documents' = docs
             /\ error' = "Answer generation failed"
             /\ agent_messages' = agent_messages_add(agent_messages,
                                      <<Message("answer_generator", "Error")>>)
    /\ execution_trace' = execution_trace_add(execution_trace, <<"answer_generator">>)
    /\ pc' = AnswerNext
    /\ UNCHANGED <<outside, metadata, config, retrieval_method, filters, expanded_queries,
                   documents, reranked_documents, compressed_documents>>

----------------------------------------------------------------------------
(* The run *)

Next ==
    \/ query_analyzer_node
    \/ supervisor_node
    \/ query_expander_node
    \/ vector_retriever_node
    \/ bm25_retriever_node
    \/ hybrid_merger_node
    \/ self_query_constructor_node
    \/ hypothetical_question_node
    \/ reranker_node
    \/ compressor_node
    \/ answer_generator_node

Spec == Init /\ [][Next]_vars

\* compiled.invoke runs the graph until END: a node that is due is executed
FairSpec == Spec /\ WF_vars(Next)

\* run_pipeline called again by the same caller with the same AgentConfig
\* object, after the run before has returned: a fresh initial_state whose
\* "config" is that object as the earlier runs left it
run_pipeline_again ==
    /\ pc = "END"
    /\ run < MaxRuns
    /\ run' = run + 1
    /\ pc' = "query_analyzer"
    /\ config' = config
    /\ retrieval_method' = ""
    /\ filters' = EmptyDict
    /\ expanded_queries' = <<>>
    /\ documents' = <<>>
    /\ reranked_documents' = <<>>
    /\ compressed_documents' = <<>>
    /\ final_documents' = <<>>
    /\ answer' = ""
    /\ agent_messages' = <<>>
    /\ execution_trace' = <<>>
    /\ error' = None
    /\ metadata' = EmptyDict
    /\ UNCHANGED <<caller_config, call, job_vars, graph_vars>>

NextRuns ==
    \/ Next
    \/ run_pipeline_again

\* the runs one caller makes one after the other with one AgentConfig object
RunsSpec == Init /\ [][NextRuns]_vars


----------------------------------------------------------------------------
(* Tools and services, called outside a run of the graph *)

\* the expand_query tool: the cleaned lines as they are, [query] when the
\* call fails
expand_query(query, lines, failed) ==
    IF failed THEN <<query>> ELSE CleanLines(lines)

call_expand_query ==
    /\ \E lines \in SeqsUpTo(RawLines, MaxLines), failed \in BOOLEAN :
          /\ failed => lines = <<>>
          /\ call' = [fn |-> "expand_query", query |-> Query, failed |-> failed,
                      result |-> expand_query(Query, lines, failed)]
    /\ UNCHANGED <<pc, config, retrieval_method, filters, expanded_queries,
                   documents, reranked_documents, compressed_documents,
                   final_documents, answer, agent_messages, execution_trace,
                   error, metadata, caller_config, run, job_vars,
                   graph_vars>>

\* a document as CrossEncoderRerankerService.rerank leaves it once scored:
\* "score" and "is_reranked" are written on the input dict itself
Scored(d) == [d EXCEPT !.form = "reranked"]

\* CrossEncoderRerankerService.rerank: ranked is the input in the order of
\* the predicted scores; failed is any exception of loading or predict
rerank(results, ranked, top_k, failed) ==
    IF results = <<>> THEN results
    ELSE IF failed THEN Take(results, top_k)
    ELSE Take([i \in 1..Len(ranked) |-> Scored(ranked[i])], top_k)

call_rerank ==
    /\ \E results \in DistinctSeqsUpTo(Collection, NumDocs),
          top_k \in 1..(MaxTopN + 1), failed \in BOOLEAN :
          \E ranked \in Orderings(results) :
             /\ failed => ranked = results
             /\ call' = [fn |-> "rerank", results |-> results, top_k |-> top_k,
                         failed |-> failed,
                         result |-> rerank(results, ranked, top_k, failed)]
    /\ UNCHANGED <<pc, config, retrieval_method, filters, expanded_queries,
                   documents, reranked_documents, compressed_documents,
                   final_documents, answer, agent_messages, execution_trace,
                   error, metadata, caller_config, run, job_vars,
                   graph_vars>>

\* HybridSearchRetriever.retrieve: "k = 60  # RRF constant"
RRF_K == 60

\* HybridSearchRetriever.retrieve: "fetch_k = top_k * 3"
OverFetch == 3

\* HybridSearchRetriever.retrieve: "round(rrf_scores[doc_id], 6)"
ScoreDigits == 6

\* the weights a HybridSearchRetriever is built with, in tenths
Weights == {<<5, 5>>, <<7, 3>>}

\* a common denominator of the terms weight / (k + rank + 1) of lists of up
\* to n entries, which makes the fused scores integers
RECURSIVE Denominator(_)
Denominator(n) == IF n = 0 THEN 1 ELSE (RRF_K + n) * Denominator(n - 1)

\* the first position of document d in the list, 0 if it is not there
PositionOf(d, list) ==
    IF \E i \in 1..Len(list) : list[i] = d
    THEN CHOOSE i \in 1..Len(list) :
             list[i] = d /\ \A j \in 1..(i - 1) : list[j] # d
    ELSE 0

\* weight / (k + rank + 1) for rank = position - 1, as a multiple of
\* 1 / (10 * Denominator(NumDocs)) (the weight is in tenths)
RRFAt(position, weight) ==
    (weight * Denominator(NumDocs)) \div (RRF_K + position)

\* what the enumerate loop over one retriever's results adds to
\* rrf_scores[d]: one term for every entry whose document_id is d, from
\* entry i on
RECURSIVE RRFLoop(_, _, _, _)
RRFLoop(d, list, weight, i) ==
    IF i > Len(list) THEN 0
    ELSE (IF list[i] = d THEN RRFAt(i, weight) ELSE 0)
         + RRFLoop(d, list, weight, i + 1)

RRFTerm(d, list, weight) == RRFLoop(d, list, weight, 1)

rrf_score(d, vector_results, bm25_results, w) ==
    RRFTerm(d, vector_results, w[1]) + RRFTerm(d, bm25_results, w[2])

\* sorted(rrf_scores, key=rrf_scores.get, reverse=True): by score, highest
\* first; the sort is stable, so documents of equal score stay in the order
\* rrf_scores got them (vector results, then the new BM25 ones)
SortedByScore(vector_results, bm25_results, w) ==
    LET inserted == Dedup(<<>>, vector_results \o bm25_results)
        score(i) == rrf_score(inserted[i], vector_results, bm25_results, w)
        before(i, j) == score(i) > score(j) \/ (score(i) = score(j) /\ i < j)
        place(i) == 1 + Cardinality({j \in 1..Len(inserted) : before(j, i)})
    IN [n \in 1..Len(inserted) |->
            inserted[CHOOSE i \in 1..Len(inserted) : place(i) = n]]

\* HybridSearchRetriever.retrieve, given what the two retrievers returned
hybrid_retrieve(vector_results, bm25_results, w, top_k) ==
    Take(SortedByScore(vector_results, bm25_results, w), top_k)

\* what is left of num / den after its first digits decimal places
RECURSIVE Remainder(_, _, _)
Remainder(num, den, digits) ==
    IF digits = 0 THEN num % den
    ELSE (Remainder(num, den, digits - 1) * 10) % den

\* num / den cut after its first digits decimal places, as an integer
RECURSIVE Decimals(_, _, _)
Decimals(num, den, digits) ==
    IF digits = 0 THEN num \div den
    ELSE 10 * Decimals(num, den, digits - 1)
         + ((Remainder(num, den, digits - 1) * 10) \div den)

\* "doc['score'] = round(rrf_scores[doc_id], 6)", in millionths: the score
\* is fused / (10 * Denominator(NumDocs))
round6(fused) ==
    (Decimals(fused, 10 * Denominator(NumDocs), ScoreDigits + 1) + 5) \div 10

\* the hits a ChromaDB search with limit k may return: hit i is a stored
\* entry (a document or a chunk of one) of the document it names
ChromaHits(k) ==
    {[i \in 1..Len(s) |-> [document |-> s[i], entry |-> i]] :
        s \in SeqsUpTo(1..NumDocs, k)}

\* _chroma_results_to_dicts: document_id is metadata["document_id"] or the
\* entry's id without its _chunk_N suffix, so every chunk of a document
\* carries the document's id
chroma_results_to_dicts(raw) ==
    [i \in 1..Len(raw) |-> RawDoc(raw[i].document)]

call_hybrid_retrieve ==
    /\ \E top_k \in 1..MaxTopK, w \in Weights :
          \E raw \in ChromaHits(Min(top_k * OverFetch, NumDocs)),
             bm25_results \in
                 DistinctSeqsUpTo(Collection, Min(top_k * OverFetch, NumDocs)) :
            \E vector_results \in {chroma_results_to_dicts(raw)} :
              \E result \in {hybrid_retrieve(vector_results, bm25_results,
                                             w, top_k)} :
                call' = [fn |-> "hybrid_retrieve", top_k |-> top_k,
                         weights |-> w,
                         vector_results |-> vector_results,
                         bm25_results |-> bm25_results,
                         result |-> result,
                         scores |-> [i \in 1..Len(result) |->
                                       round6(rrf_score(result[i],
                                           vector_results, bm25_results, w))]]
    /\ UNCHANGED <<pc, config, retrieval_method, filters, expanded_queries,
                   documents, reranked_documents, compressed_documents,
                   final_documents, answer, agent_messages, execution_trace,
                   error, metadata, caller_config, run, job_vars,
                   graph_vars>>

\* the metadata keys the filter builders recognize, in the order they test
\* them
FilterKeys == <<"year", "topics", "subtopic">>

\* values a filter dict may hold under a key: year as an int, as a numeric
\* string or null; topics as a string, a list of strings or empty;
\* subtopic as a string or empty
FilterValues(key) ==
    CASE key = "year" -> {None, "2023", "'2023'"}
      [] key = "topics" -> {"", "solar", "['solar', 'wind']"}
      [] key = "subtopic" -> {"", "pv"}

\* the filter dicts over the recognized keys
FilterDicts ==
    UNION {{f \in [K -> UNION {FilterValues(k) : k \in K}] :
               \A k \in K : f[k] \in FilterValues(k)} :
           K \in SUBSET Range(FilterKeys)}

\* int(filters["year"]) of a year that is not None
PyInt(v) == IF v = "'2023'" THEN "2023" ELSE v

\* ", ".join(topic_val) when topic_val is a list
Joined(v) == IF v = "['solar', 'wind']" THEN "solar, wind" ELSE v

\* truth value of a filter value: None and "" are falsy
Truthy(v) == v \notin {None, ""}

\* {key: {op: value}}
Clause(key, op, value) == [key |-> key, op |-> op, value |-> value]

\* the last lines of the builders: None for no clause, the clause itself
\* for one, {"$and": clauses} for more
Wrap_alwaysAnd(clauses) ==
    IF clauses = <<>> THEN [wrapper |-> "none", clauses |-> <<>>]
    ELSE [wrapper |-> "$and", clauses |-> clauses]
Wrap(clauses) ==
    IF clauses = <<>> THEN [wrapper |-> "none", clauses |-> <<>>]
    ELSE IF Len(clauses) = 1 THEN [wrapper |-> "bare", clauses |-> clauses]
    ELSE [wrapper |-> "$and", clauses |-> clauses]

\* SelfQueryRetriever._build_where
build_where(f) ==
    IF DOMAIN f = {} THEN Wrap(<<>>)
    ELSE Wrap(
        (IF "year" \in DOMAIN f /\ f["year"] # None
         THEN <<Clause("year", "$eq", PyInt(f["year"]))>> ELSE <<>>)
        \o (IF "topics" \in DOMAIN f /\ Truthy(f["topics"])
            THEN <<Clause("topics", "$contains", Joined(f["topics"]))>>
            ELSE <<>>)
        \o (IF "subtopic" \in DOMAIN f /\ Truthy(f["subtopic"])
            THEN <<Clause("subtopic", "$eq", f["subtopic"])>> ELSE <<>>))

\* _build_chroma_where of the nodes
build_chroma_where(f) ==
    IF DOMAIN f = {} THEN Wrap(<<>>)
    ELSE Wrap(
        (IF "year" \in DOMAIN f /\ f["year"] # None
         THEN <<Clause("year", "$eq", PyInt(f["year"]))>> ELSE <<>>)
        \o (IF "topics" \in DOMAIN f /\ Truthy(f["topics"])
            THEN <<Clause("topics", "$eq", f["topics"])>> ELSE <<>>)
        \o (IF "subtopic" \in DOMAIN f /\ Truthy(f["subtopic"])
            THEN <<Clause("subtopic", "$eq", f["subtopic"])>> ELSE <<>>))

\* the where clause of the filter_by_metadata tool: every key that is
\* present gets a clause; int(None) raises, and the tool then returns an
\* error entry without searching
filter_by_metadata_where(f) ==
    IF "year" \in DOMAIN f /\ f["year"] = None
    THEN [wrapper |-> "raised", clauses |-> <<>>]
    ELSE Wrap(
        (IF "year" \in DOMAIN f
         THEN <<Clause("year", "$eq", PyInt(f["year"]))>> ELSE <<>>)
        \o (IF "topics" \in DOMAIN f
            THEN <<Clause("topics", "$eq", f["topics"])>> ELSE <<>>)
        \o (IF "subtopic" \in DOMAIN f
            THEN <<Clause("subtopic", "$eq", f["subtopic"])>> ELSE <<>>))

call_build_where ==
    /\ \E f \in FilterDicts :
          call' = [fn |-> "_build_where", filters |-> f, result |-> build_where(f)]
    /\ UNCHANGED <<pc, config, retrieval_method, filters, expanded_queries,
                   documents, reranked_documents, compressed_documents,
                   final_documents, answer, agent_messages, execution_trace,
                   error, metadata, caller_config, run, job_vars,
                   graph_vars>>

call_build_chroma_where ==
    /\ \E f \in FilterDicts :
          call' = [fn |-> "_build_chroma_where", filters |-> f,
                   result |-> build_chroma_where(f)]
    /\ UNCHANGED <<pc, config, retrieval_method, filters, expanded_queries,
                   documents, reranked_documents, compressed_documents,
                   final_documents, answer, agent_messages, execution_trace,
                   error, metadata, caller_config, run, job_vars,
                   graph_vars>>

call_filter_by_metadata ==
    /\ \E f \in FilterDicts :
          call' = [fn |-> "filter_by_metadata", filters |-> f,
                   result |-> filter_by_metadata_where(f)]
    /\ UNCHANGED <<pc, config, retrieval_method, filters, expanded_queries,
                   documents, reranked_documents, compressed_documents,
                   final_documents, answer, agent_messages, execution_trace,
                   error, metadata, caller_config, run, job_vars,
                   graph_vars>>

\* AgentCard.status values
Statuses == {"active", "inactive"}

\* the cards AGENT_CARDS may hold under a name
CardOptions(name) ==
    IF name = "Supervisor"
    THEN {[name |-> name, status |-> s, capabilities |-> {},
           supported_methods |-> {}] : s \in Statuses}
    ELSE {[name |-> name, status |-> s, capabilities |-> c,
           supported_methods |-> m] :
             s \in Statuses, c \in SUBSET {"retrieval"}, m \in SUBSET {"search"}}

\* AGENT_CARDS in its insertion order: each of three agents registered or not
Registries ==
    {a \o b \o s :
        a \in {<<>>} \cup {<<c>> : c \in CardOptions("VectorRetriever")},
        b \in {<<>>} \cup {<<c>> : c \in CardOptions("BM25Retriever")},
        s \in {<<>>} \cup {<<c>> : c \in CardOptions("Supervisor")}}

\* the routing hints of a task; None is a hint the payload does not carry
Tasks ==
    [target_agent : {None, "VectorRetriever", "BM25Retriever"},
     capability : {None, "retrieval"},
     method : {None, "search"}]

\* AGENT_CARDS.get(name): the position of the card, 0 for None
CardAt(cards, name) ==
    IF \E i \in 1..Len(cards) : cards[i].name = name
    THEN CHOOSE i \in 1..Len(cards) : cards[i].name = name
    ELSE 0

\* _rebuild_capability_index: the names of the agents that advertise the
\* capability, in the order of AGENT_CARDS
capability_index(cards, capability) ==
    LET advertises(card) == capability \in card.capabilities
    IN [i \in 1..Len(SelectSeq(cards, advertises)) |->
            SelectSeq(cards, advertises)[i].name]

\* AgentRouter.get_agent_by_capability: the name of the first active agent
\* of the index, None if there is none
get_agent_by_capability_anyStatus(cards, capability) ==
    LET names == capability_index(cards, capability)
    IN IF names = <<>> THEN None ELSE names[1]
get_agent_by_capability(cards, capability) ==
    LET names == capability_index(cards, capability)
        hits == {i \in 1..Len(names) :
                    /\ CardAt(cards, names[i]) # 0
                    /\ cards[CardAt(cards, names[i])].status = "active"}
    IN IF hits = {} THEN None
       ELSE names[CHOOSE i \in hits : \A j \in hits : i <= j]

\* AgentRouter.route_task: the name of the card it returns, or "ValueError"
route_task(cards, task) ==
    LET target == CardAt(cards, task.target_agent)
        by_capability == get_agent_by_capability(cards, task.capability)
        by_method == {i \in 1..Len(cards) :
                         /\ task.method \in cards[i].supported_methods
                         /\ cards[i].status = "active"}
    IN IF /\ task.target_agent # None
          /\ target # 0
          /\ cards[target].status = "active"
       THEN task.target_agent
       ELSE IF task.capability # None /\ by_capability # None
       THEN by_capability
       ELSE IF task.method # None /\ by_method # {}
       THEN cards[CHOOSE i \in by_method : \A j \in by_method : i <= j].name
       ELSE IF CardAt(cards, "Supervisor") # 0
       THEN "Supervisor"
       ELSE "ValueError"

call_route_task ==
    /\ \E cards \in Registries, task \in Tasks :
          call' = [fn |-> "route_task", cards |-> cards, task |-> task,
                   result |-> route_task(cards, task)]
    /\ UNCHANGED <<pc, config, retrieval_method, filters, expanded_queries,
                   documents, reranked_documents, compressed_documents,
                   final_documents, answer, agent_messages, execution_trace,
                   error, metadata, caller_config, run, job_vars,
                   graph_vars>>

\* what the store may hold besides the collection: a chunk with the text of
\* the first entry and white space around it
Chunks == Collection \cup {Padded(RawDoc(1))}

\* the search loop of vector_retriever_node over a store holding Chunks:
\* one similarity search with k = config.top_k per query variant
call_vector_search ==
    /\ \E n \in 1..(MaxLines + 1) :
         \E results \in [1..n -> DistinctSeqsUpTo(Chunks, config.top_k)] :
            call' = [fn |-> "vector_search", results |-> results,
                     all_docs |-> Dedup(<<>>, Concat(results))]
    /\ UNCHANGED <<pc, config, retrieval_method, filters, expanded_queries,
                   documents, reranked_documents, compressed_documents,
                   final_documents, answer, agent_messages, execution_trace,
                   error, metadata, caller_config, run, job_vars,
                   graph_vars>>

CallNext ==
    \/ call_vector_search
    \/ call_expand_query
    \/ call_rerank
    \/ call_hybrid_retrieve
    \/ call_build_where
    \/ call_build_chroma_where
    \/ call_filter_by_metadata
    \/ call_route_task

\* the flags of AgentConfig(): use_reranking on, the others off
DefaultFlags(cfg) ==
    /\ cfg.use_reranking
    /\ ~cfg.use_compression
    /\ ~cfg.use_query_expansion
    /\ ~cfg.use_hypothetical_questions

\* a process that runs the pipeline once or calls a tool or service.  No
\* node reads what a call returned, and no call reads the state of a run,
\* a flag of its configuration or what an earlier call returned, so each is
\* explored from the initial state of a configuration with the default
\* flags.
SystemNext ==
    \/ call = NoCall /\ Next
    \/ call = NoCall /\ pc = "query_analyzer" /\ DefaultFlags(config) /\ CallNext

SystemSpec == Init /\ [][SystemNext]_vars

----------------------------------------------------------------------------
(* The query endpoint and the run_query_pipeline job *)

\* the choices of QueryRequestSerializer.retrieval_method
SerializerChoices ==
    {"vanilla", "self_query", "hypothetical", "bm25", "hybrid", "reranked",
     "compressed", "expanded"}

\* the keys of _RETRIEVER_MAP
RetrieverMap == {"vanilla", "self_query", "hypothetical", "bm25", "hybrid"}

\* get_retriever raises ValueError for a method that is no key of the map
get_retriever_raises(method) == method \notin RetrieverMap

\* @shared_task(bind=True, max_retries=2, ...)
max_retries == 2

\* the QueryResult rows the persist loop creates for the first n results
Persisted(query_id, found, n) ==
    {[query |-> query_id, rank |-> i, document |-> found[i]] : i \in 1..n}

\* unique_together (query, rank): the first result whose rank is taken by
\* a row of the query, 0 when no rank is taken
FirstTaken(query_id, found) ==
    LET taken == {i \in 1..Len(found) :
                     \E row \in result_rows :
                         row.query = query_id /\ row.rank = i}
    IN IF taken = {} THEN 0 ELSE CHOOSE i \in taken : \A j \in taken : i <= j

\* "raise self.retry(exc=exc)": the message is queued again until the
\* retries are used up, then the exception ends the job
Retried(message, exc) ==
    IF message.retries < max_retries
    THEN [message EXCEPT !.state = "queued", !.retries = @ + 1, !.error = exc]
    ELSE [message EXCEPT !.state = "failed", !.error = exc]

\* QueryAPIView.post: the request passed QueryRequestSerializer; the Query
\* row is created, the pipeline is tried synchronously (found is what the
\* retrieval returns, crash the number of rows created before a failure),
\* and on any exception the job is queued with the id of the row and the
\* 202 response carries the exception as error_detail
QueryAPIView_post ==
    /\ job.state = "none"
    /\ \E method \in SerializerChoices,
          found \in DistinctSeqsUpTo(Collection, NumDocs) :
          LET query_id == Cardinality(query_rows) + 1
              message == [state |-> "queued", query_id |-> query_id,
                          method |-> method, found |-> found, retries |-> 0,
                          redelivered |-> 0, error |-> None]
          IN /\ query_rows' = query_rows \cup {query_id}
             /\ \/ /\ ~get_retriever_raises(method)
                   /\ result_rows' = result_rows
                                       \cup Persisted(query_id, found, Len(found))
                   /\ job' = [message EXCEPT !.state = "answered"]
                \/ /\ get_retriever_raises(method)
                   /\ result_rows' = result_rows
                   /\ job' = [message EXCEPT !.error = "ValueError"]
                \/ /\ ~get_retriever_raises(method)
                   /\ \E crash \in 0..(Len(found) - 1) :
                         result_rows' = result_rows
                                          \cup Persisted(query_id, found, crash)
                   /\ job' = [message EXCEPT !.error = "pipeline failed"]
    /\ UNCHANGED <<run_vars, call, graph_vars>>

\* run_query_pipeline.delay(None, request_data): the job is asked to create
\* the Query row itself (query_id 0 stands for None)
run_query_pipeline_delay ==
    /\ job.state = "none"
    /\ \E method \in SerializerChoices,
          found \in DistinctSeqsUpTo(Collection, NumDocs) :
          job' = [state |-> "queued", query_id |-> 0, method |-> method,
                  found |-> found, retries |-> 0, redelivered |-> 0,
                  error |-> None]
    /\ UNCHANGED <<query_rows, result_rows, run_vars, call, graph_vars>>

\* one execution of run_query_pipeline
run_query_pipeline ==
    /\ job.state = "queued"
    /\ LET query_id == IF job.query_id # 0 THEN job.query_id
                       ELSE Cardinality(query_rows) + 1
           taken == FirstTaken(query_id, job.found)
       IN /\ query_rows' = query_rows \cup {query_id}
          /\ \/ /\ get_retriever_raises(job.method)
                /\ result_rows' = result_rows
                /\ job' = Retried(job, "ValueError")
             \/ /\ ~get_retriever_raises(job.method)
                /\ result_rows' = result_rows
                /\ job' = Retried(job, "retrieval failed")
             \/ /\ ~get_retriever_raises(job.method)
                /\ taken # 0
                /\ result_rows' = result_rows
                                    \cup Persisted(query_id, job.found, taken - 1)
                /\ job' = Retried(job, "IntegrityError")
             \/ /\ ~get_retriever_raises(job.method)
                /\ taken = 0
                /\ \E crash \in 1..(Len(job.found) - 1) :
                      result_rows' = result_rows
                                       \cup Persisted(query_id, job.found, crash)
                /\ job' = Retried(job, "persist failed")
             \/ /\ ~get_retriever_raises(job.method)
                /\ taken = 0
                /\ result_rows' = result_rows
                       \cup Persisted(query_id, job.found, Len(job.found))
                /\ job' = [job EXCEPT !.state = "completed"]
    /\ UNCHANGED <<run_vars, call, graph_vars>>

\* at-least-once delivery: the broker delivers a processed message again
redeliver ==
    /\ job.state = "completed"
    /\ job.redelivered < MaxRedeliveries
    /\ job' = [job EXCEPT !.state = "queued", !.redelivered = @ + 1]
    /\ UNCHANGED <<query_rows, result_rows, run_vars, call, graph_vars>>

JobNext ==
    \/ QueryAPIView_post
    \/ run_query_pipeline_delay
    \/ run_query_pipeline
    \/ redeliver

JobSpec == Init /\ [][JobNext]_vars

----------------------------------------------------------------------------
(* The compiled graph singleton: get_compiled_graph, one step per read or
   write of the module-level _compiled_graph; 0 stands for None and a
   positive number for the compiled object it refers to *)

\* the checkpointer arguments: None or one of two savers
Checkpointers == {None, "saver_a", "saver_b"}

\* run_pipeline, arun_pipeline or a direct caller enters get_compiled_graph
get_compiled_graph_call(t) ==
    /\ callers[t].at = "outside"
    /\ callers[t].calls < MaxCalls
    /\ \E checkpointer \in Checkpointers, force_rebuild \in BOOLEAN :
          callers' = [callers EXCEPT ![t] =
              [at |-> "check", calls |-> callers[t].calls + 1, result |-> 0,
               checkpointer |-> checkpointer, force_rebuild |-> force_rebuild]]
    /\ UNCHANGED <<compiled_graph, instances, run_vars, call, job_vars>>

\* "if _compiled_graph is not None and not force_rebuild"
get_compiled_graph_check(t) ==
    /\ callers[t].at = "check"
    /\ callers' = [callers EXCEPT ![t].at =
                      IF compiled_graph # 0 /\ ~callers[t].force_rebuild
                      THEN "cached" ELSE "build"]
    /\ UNCHANGED <<compiled_graph, instances, run_vars, call, job_vars>>

\* "return _compiled_graph" of the cached branch
get_compiled_graph_cached(t) ==
    /\ callers[t].at = "cached"
    /\ callers' = [callers EXCEPT ![t].at = "outside",
                                  ![t].result = compiled_graph]
    /\ UNCHANGED <<compiled_graph, instances, run_vars, call, job_vars>>

\* "graph = build_graph()" and "graph.compile(**compile_kwargs)": a new
\* compiled object, holding the checkpointer of this call
get_compiled_graph_compile(t) ==
    /\ callers[t].at = "build"
    /\ instances' = Append(instances,
                           [checkpointer |-> callers[t].checkpointer,
                            force_rebuild |-> callers[t].force_rebuild])
    /\ callers' = [callers EXCEPT ![t].at = "store",
                                  ![t].result = Len(instances) + 1]
    /\ UNCHANGED <<compiled_graph, run_vars, call, job_vars>>

\* "_compiled_graph = ..."
get_compiled_graph_store(t) ==
    /\ callers[t].at = "store"
    /\ compiled_graph' = callers[t].result
    /\ callers' = [callers EXCEPT ![t].at = "return"]
    /\ UNCHANGED <<instances, run_vars, call, job_vars>>

\* "return _compiled_graph" after the store
get_compiled_graph_return(t) ==
    /\ callers[t].at = "return"
    /\ callers' = [callers EXCEPT ![t].at = "outside",
                                  ![t].result = compiled_graph]
    /\ UNCHANGED <<compiled_graph, instances, run_vars, call, job_vars>>

GraphNext ==
    \E t \in Threads :
        \/ get_compiled_graph_call(t)
        \/ get_compiled_graph_check(t)
        \/ get_compiled_graph_cached(t)
        \/ get_compiled_graph_compile(t)
        \/ get_compiled_graph_store(t)
        \/ get_compiled_graph_return(t)

GraphSpec == Init /\ [][GraphNext]_vars

----------------------------------------------------------------------------
(* The flow diagram *)

\* the (source, target) pairs of the edge list of get_agent_flow_diagram
FlowEdges ==
    {<<"__start__", "query_analyzer">>, <<"query_analyzer", "supervisor">>,
     <<"supervisor", "query_expander">>, <<"supervisor", "vector_retriever">>,
     <<"supervisor", "bm25_retriever">>, <<"supervisor", "hybrid_merger">>,
     <<"supervisor", "self_query_constructor">>,
     <<"supervisor", "hypothetical_question_retriever">>,
     <<"query_expander", "vector_retriever">>,
     <<"vector_retriever", "reranker">>,
     <<"vector_retriever", "answer_generator">>,
     <<"bm25_retriever", "reranker">>,
     <<"bm25_retriever", "answer_generator">>,
     <<"hybrid_merger", "reranker">>,
     <<"hybrid_merger", "answer_generator">>,
     <<"self_query_constructor", "reranker">>,
     <<"self_query_constructor", "answer_generator">>,
     <<"hypothetical_question_retriever", "reranker">>,
     <<"hypothetical_question_retriever", "answer_generator">>,
     <<"reranker", "compressor">>, <<"reranker", "answer_generator">>,
     <<"compressor", "answer_generator">>,
     <<"answer_generator", "__end__">>}

\* the diagram's name of a position of the graph
FlowName(node) == IF node = "END" THEN "__end__" ELSE node

----------------------------------------------------------------------------
(* Notions the properties share *)

\* the run has reached END
Completed == pc = "END"

Executed(node) == node \in Range(execution_trace)

\* positions of the trace that hold a retrieval-strategy node
RetrievalPositions ==
    {i \in 1..Len(execution_trace) : execution_trace[i] \in RetrievalNodes}

LastTrace == execution_trace[Len(execution_trace)]

LastMessage == agent_messages[Len(agent_messages)]

ValidRoutes ==
    {"expand", "vector", "bm25", "hybrid", "self_query", "hypothetical_questions"}

\* the method the analyzer reported in its message, once it has succeeded
AnalyzerChose(m) ==
    /\ Len(agent_messages) >= 1
    /\ agent_messages[1] = MessageAbout("query_analyzer", "Selected", m)

\* the stages that must follow the retrieval node under the flags of cfg
PostRetrieval(cfg) ==
    (IF cfg.use_reranking THEN <<"reranker">> ELSE <<>>)
    \o (IF cfg.use_compression THEN <<"compressor">> ELSE <<>>)
    \o <<"answer_generator">>

----------------------------------------------------------------------------
(* C1 *)

\* C1: every step of a run is one node executing, and it appends exactly
\* its own name to execution_trace and exactly one message of its own to
\* agent_messages, leaving all earlier entries as they were; so the two
\* lists always have the same length and entry i of agent_messages comes
\* from the node named by entry i of execution_trace.
C1_TraceAndMessagesAppendOnly ==
    /\ [](/\ Len(execution_trace) = Len(agent_messages)
          /\ \A i \in 1..Len(execution_trace) :
                 agent_messages[i].agent = execution_trace[i])
    /\ [][/\ execution_trace' = Append(execution_trace, pc)
          /\ Len(agent_messages') = Len(agent_messages) + 1
          /\ IsPrefix(agent_messages, agent_messages')]_vars

\* a completed run in which the reranker took its failure path
C1_Witness ==
    /\ Completed
    /\ \E i \in 1..Len(agent_messages) :
           agent_messages[i] = Message("reranker", "Error")
    /\ Len(execution_trace) >= 5
    /\ Len(execution_trace) = Len(agent_messages)

----------------------------------------------------------------------------
(* C2 *)

----------------------------------------------------------------------------
(* C3 *)

\* C3: no node name occurs twice in execution_trace, the trace starts with
\* query_analyzer then supervisor, and the supervisor is not due again once
\* it has run (in particular not after query_expander).
C3_EachNodeAtMostOnce ==
    /\ \A i, j \in 1..Len(execution_trace) :
           i # j => execution_trace[i] # execution_trace[j]
    /\ Len(execution_trace) >= 1 => execution_trace[1] = "query_analyzer"
    /\ Len(execution_trace) >= 2 => execution_trace[2] = "supervisor"
    /\ Executed("supervisor") => pc # "supervisor"
    /\ Executed("query_analyzer") => pc # "query_analyzer"

\* the expander has run and handed over to a later node
C3_Witness ==
    /\ Executed("query_expander")
    /\ LastTrace = "vector_retriever"
    /\ config.use_query_expansion

----------------------------------------------------------------------------
(* C4 *)

\* C4: a completed run has exactly one retrieval-strategy node in its
\* execution_trace.
C4_ExactlyOneStrategy ==
    Completed => Cardinality(RetrievalPositions) = 1

\* a completed run that went through the expansion pre-stage although the
\* analyzer chose bm25
C4_Witness ==
    /\ Completed
    /\ Executed("query_expander")
    /\ AnalyzerChose("bm25")
    /\ Cardinality(RetrievalPositions) = 1

----------------------------------------------------------------------------
(* C5 *)

\* C5: when the supervisor runs with config.use_hypothetical_questions set,
\* it writes retrieval_method = hypothetical_questions and the graph goes to
\* hypothetical_question_retriever; such a run executes no other retrieval
\* node and never query_expander.
C5_HypotheticalQuestionsWins ==
    /\ [][(pc = "supervisor" /\ config.use_hypothetical_questions)
            => /\ retrieval_method' = "hypothetical_questions"
               /\ pc' = "hypothetical_question_retriever"]_vars
    /\ []((Executed("supervisor") /\ config.use_hypothetical_questions)
            => /\ ~Executed("query_expander")
               /\ \A i \in RetrievalPositions :
                      execution_trace[i] = "hypothetical_question_retriever"
               /\ Completed => Executed("hypothetical_question_retriever"))

\* the analyzer chose bm25, expansion was requested too, and the run went
\* to the hypothetical-question retriever
C5_Witness ==
    /\ AnalyzerChose("bm25")
    /\ config.use_hypothetical_questions
    /\ config.use_query_expansion
    /\ Executed("hypothetical_question_retriever")
    /\ retrieval_method = "hypothetical_questions"

----------------------------------------------------------------------------
(* C6 *)

\* C6: when use_hypothetical_questions is false and use_query_expansion is
\* true at supervisor entry, the supervisor routes to expand, and the trace
\* continues supervisor, query_expander, vector_retriever.
C6_ExpandThenVector ==
    /\ [][(/\ pc = "supervisor"
           /\ ~config.use_hypothetical_questions
           /\ config.use_query_expansion)
            => /\ retrieval_method' = "expand"
               /\ pc' = "query_expander"]_vars
    /\ []((/\ Executed("supervisor")
           /\ ~config.use_hypothetical_questions
           /\ config.use_query_expansion)
            => /\ Len(execution_trace) = 2 => pc = "query_expander"
               /\ Len(execution_trace) >= 3 => execution_trace[3] = "query_expander"
               /\ Len(execution_trace) = 3 => pc = "vector_retriever"
               /\ Len(execution_trace) >= 4 => execution_trace[4] = "vector_retriever")

\* the analyzer chose hybrid, yet the trace is analyzer, supervisor,
\* expander, vector retriever
C6_Witness ==
    /\ AnalyzerChose("hybrid")
    /\ ~config.use_hypothetical_questions
    /\ config.use_query_expansion
    /\ Len(execution_trace) >= 4
    /\ SubSeq(execution_trace, 1, 4) =
           <<"query_analyzer", "supervisor", "query_expander", "vector_retriever">>


----------------------------------------------------------------------------
(* C7 *)

----------------------------------------------------------------------------
(* C8 *)

\* C8: reranker and compressor execute only when their flag is set and
\* never out of order (nothing follows answer_generator, the reranker never
\* follows the compressor); in a completed run the trace ends with the
\* retrieval node, then reranker iff use_reranking, then compressor iff
\* use_compression, then answer_generator.
C8_PostRetrievalOrder ==
    /\ Executed("reranker") => config.use_reranking
    /\ Executed("compressor") => config.use_compression
    /\ \A i, j \in 1..Len(execution_trace) :
           i < j => /\ execution_trace[i] # "answer_generator"
                    /\ ~(execution_trace[i] = "compressor"
                         /\ execution_trace[j] = "reranker")
    /\ Completed =>
           \E r \in RetrievalPositions :
               SubSeq(execution_trace, r + 1, Len(execution_trace))
                   = PostRetrieval(config)

\* a completed run with both stages, and one with the compressor alone
C8_Witness ==
    /\ Completed
    /\ config.use_reranking
    /\ config.use_compression
    /\ Executed("bm25_retriever")
    /\ Len(execution_trace) = 6

----------------------------------------------------------------------------
(* C9 *)

\* C9: once answer_generator has run, final_documents is
\* compressed_documents if that is non-empty, else reranked_documents if
\* that is non-empty, else documents; and when the completion call failed,
\* the answer is the error-describing string and error is set.
C9_FinalDocumentsByPriority ==
    Executed("answer_generator") =>
        /\ final_documents =
               IF compressed_documents # <<>> THEN compressed_documents
               ELSE IF reranked_documents # <<>> THEN reranked_documents
               ELSE documents
        /\ LastMessage = Message("answer_generator", "Error") =>
               /\ answer = GenerationErrorAnswer
               /\ error = "Answer generation failed"
        /\ pc = "END"

\* the completion call failed in a run whose compressor produced passages
\* that differ from the reranked documents
C9_Witness ==
    /\ Executed("answer_generator")
    /\ LastMessage = Message("answer_generator", "Error")
    /\ compressed_documents # <<>>
    /\ reranked_documents # <<>>
    /\ compressed_documents # reranked_documents
    /\ final_documents = compressed_documents

----------------------------------------------------------------------------
(* C10 *)

\* C10 as stated: a completed run with use_reranking and use_compression
\* has reranker then compressor before answer_generator in its trace and
\* final_documents = compressed_documents.
C10_FinalEqualsCompressed ==
    (Completed /\ config.use_reranking /\ config.use_compression) =>
        /\ \E i, j, k \in 1..Len(execution_trace) :
               /\ i < j /\ j < k
               /\ execution_trace[i] = "reranker"
               /\ execution_trace[j] = "compressor"
               /\ execution_trace[k] = "answer_generator"
        /\ final_documents = compressed_documents

\* C10 (amended): a completed run with use_reranking and use_compression
\* has reranker then compressor before answer_generator in its trace, and
\* final_documents = compressed_documents whenever the compressor kept at
\* least one passage; when it kept none, final_documents is the reranked
\* documents (or the raw documents if those are empty too).
C10_FinalEqualsNonEmptyCompressed ==
    (Completed /\ config.use_reranking /\ config.use_compression) =>
        /\ \E i, j, k \in 1..Len(execution_trace) :
               /\ i < j /\ j < k
               /\ execution_trace[i] = "reranker"
               /\ execution_trace[j] = "compressor"
               /\ execution_trace[k] = "answer_generator"
        /\ compressed_documents # <<>> => final_documents = compressed_documents
        /\ compressed_documents = <<>> =>
               final_documents = Or(reranked_documents, documents)

\* a completed run with both flags whose compressor kept passages
C10_Witness ==
    /\ Completed
    /\ config.use_reranking
    /\ config.use_compression
    /\ compressed_documents # <<>>
    /\ compressed_documents # reranked_documents
    /\ final_documents = compressed_documents

----------------------------------------------------------------------------
(* C11 *)

\* the analyzer's answer asked for query expansion (needs_expansion)
AnalyzerFlaggedExpansion ==
    /\ "query_analysis" \in DOMAIN metadata
    /\ "needs_expansion" \in DOMAIN metadata.query_analysis
    /\ metadata.query_analysis.needs_expansion

\* C11: a completed run in which the analyzer chose "vector", reranking and
\* compression are off and the caller's use_query_expansion and
\* use_hypothetical_questions are off has the trace query_analyzer,
\* supervisor, vector_retriever, answer_generator, and its final_documents
\* are the raw result of the vector retriever.
C11_PlainVectorRun ==
    (/\ Completed
     /\ AnalyzerChose("vector")
     /\ ~config.use_reranking
     /\ ~config.use_compression
     /\ ~caller_config.use_query_expansion
     /\ ~caller_config.use_hypothetical_questions) =>
        /\ execution_trace = <<"query_analyzer", "supervisor",
                               "vector_retriever", "answer_generator">>
        /\ final_documents = documents

----------------------------------------------------------------------------
(* C12 *)

\* the query variants the retrieval node after the expander searches with
QueryVariants == Or(expanded_queries, <<Query>>)

\* C12 as stated: every completed run the caller started with
\* use_query_expansion has query_expander immediately before its retrieval
\* node, and that node receives more than one query variant.
C12_ExpansionRunsAndWidens ==
    (Completed /\ caller_config.use_query_expansion) =>
        /\ \E i \in 1..(Len(execution_trace) - 1) :
               /\ execution_trace[i] = "query_expander"
               /\ execution_trace[i + 1] \in RetrievalNodes
        /\ Len(QueryVariants) > 1

\* C12 (amended): every completed run the caller started with
\* use_query_expansion and without use_hypothetical_questions has
\* query_expander immediately before vector_retriever, the one retrieval
\* node of the run; the variants that node receives are expanded_queries,
\* which always include the original query and are more than one only when
\* the expansion call succeeded (its lines may still all repeat the
\* original query).
C12_ExpansionBeforeVector ==
    (/\ Completed
     /\ caller_config.use_query_expansion
     /\ ~caller_config.use_hypothetical_questions) =>
        /\ \E i \in 1..(Len(execution_trace) - 1) :
               /\ execution_trace[i] = "query_expander"
               /\ execution_trace[i + 1] = "vector_retriever"
               /\ RetrievalPositions = {i + 1}
        /\ Query \in Range(QueryVariants)
        /\ QueryVariants = expanded_queries
        /\ Len(QueryVariants) > 1 =>
               Message("query_expander", "Generated") \in Range(agent_messages)

\* a completed run started with use_query_expansion whose vector retriever
\* received the original query and one more variant
C12_Witness ==
    /\ Completed
    /\ caller_config.use_query_expansion
    /\ ~caller_config.use_hypothetical_questions
    /\ Executed("query_expander")
    /\ Executed("vector_retriever")
    /\ Len(expanded_queries) = 2

----------------------------------------------------------------------------
(* C13 *)

\* the analyzer took its except branch
AnalyzerFailed ==
    /\ Len(agent_messages) >= 1
    /\ agent_messages[1] = Message("query_analyzer", "Error")

\* C13: when query_analyzer has returned, retrieval_method is one of vector,
\* bm25, hybrid, self_query, hypothetical_questions whatever the model
\* answered; after a failure of the call it is "vector", filters is {} and
\* error is set.
C13_AnalyzerMethodInFixedSet ==
    (pc = "supervisor" /\ LastTrace = "query_analyzer") =>
        /\ retrieval_method \in Methods
        /\ AnalyzerFailed =>
               (retrieval_method = "vector" /\ filters = EmptyDict /\ error # None)

----------------------------------------------------------------------------
(* C14 *)

\* C14: in every state of a run each field of config has the value the
\* caller gave it; no node changes the caller's AgentConfig object.
C14_ConfigImmutable == config = caller_config

----------------------------------------------------------------------------
(* C15 *)

\* the method this run's analyzer returned ("vector" from its except branch)
OwnAnalyzerMethod ==
    IF AnalyzerFailed THEN "vector" ELSE agent_messages[1].about

\* the configuration a run has by its own inputs alone: the caller's values
\* and this run's needs_expansion flag
OwnConfig ==
    [caller_config EXCEPT
        !.use_query_expansion = @ \/ AnalyzerFlaggedExpansion]

\* C15: the route of each run that a caller makes with one AgentConfig
\* object depends only on that run's analyzer response and the values the
\* caller gave the config: the supervisor's decision is the one these two
\* determine, whatever the analyzer of an earlier run decided.
C15_RunsIndependent ==
    (Len(execution_trace) >= 2 /\ execution_trace[2] = "supervisor") =>
        retrieval_method = next_action(OwnConfig, OwnAnalyzerMethod, <<>>)

----------------------------------------------------------------------------
(* C16 *)

\* C16: when answer_generator runs and the compressed, the reranked and the
\* raw documents are all empty, it returns the fixed "could not find any
\* relevant documents" answer with final_documents empty, takes the return
\* path that precedes the completion call, and leaves error as it was.
C16_NoDocumentsNoCompletion ==
    [][(/\ pc = "answer_generator"
        /\ compressed_documents = <<>>
        /\ reranked_documents = <<>>
        /\ documents = <<>>) =>
           /\ answer' = "I could not find any relevant documents"
           /\ final_documents' = <<>>
           /\ LastMessage' = Message("answer_generator", "No documents")
           /\ error' = error]_vars

\* a completed run whose retrieval found nothing and went without error
C16_Witness ==
    /\ Completed
    /\ documents = <<>>
    /\ final_documents = <<>>
    /\ answer = NoDocumentsAnswer
    /\ LastMessage = Message("answer_generator", "No documents")
    /\ error = None

----------------------------------------------------------------------------
(* C17 *)

\* the query_expander node: expanded_queries includes the original query,
\* and is exactly the original query after a failure, which sets error
NodeExpansionIncludesOriginal ==
    Executed("query_expander") =>
        /\ Query \in Range(expanded_queries)
        /\ Message("query_expander", "Error") \in Range(agent_messages) =>
               (expanded_queries = <<Query>> /\ error # None)

\* the expand_query tool: the same of its result
ToolExpansionIncludesOriginal ==
    call.fn = "expand_query" =>
        /\ call.result # <<>>
        /\ call.query \in Range(call.result)
        /\ call.failed => call.result = <<call.query>>

\* C17: query expansion, in the query_expander node and in the expand_query
\* tool, returns a non-empty list that includes the original query even
\* when the model returns no usable line; when the model call fails the
\* result is [original query] (and the node sets error).
C17_ExpansionIncludesOriginal ==
    NodeExpansionIncludesOriginal /\ ToolExpansionIncludesOriginal

----------------------------------------------------------------------------
(* C18 *)

\* the ids of the documents of a list
Ids(docs) == {docs[i].id : i \in 1..Len(docs)}

\* the reranker node took its except branch
RerankerFailed == Message("reranker", "Error") \in Range(agent_messages)

\* C18: the reranker's output - reranker_node's and
\* CrossEncoderRerankerService.rerank's - is never longer than
\* reranker_top_n nor than its input, and holds input documents only; when
\* loading or scoring fails it is the first reranker_top_n input documents
\* in input order, and the node records error.
C18_RerankerBounded ==
    /\ Executed("reranker") =>
          /\ Len(reranked_documents) <= config.reranker_top_n
          /\ Len(reranked_documents) <= Len(documents)
          /\ Range(reranked_documents) \subseteq Range(documents)
          /\ RerankerFailed =>
                /\ reranked_documents = Take(documents, config.reranker_top_n)
                /\ error # None
    /\ call.fn = "rerank" =>
          /\ Len(call.result) <= call.top_k
          /\ Len(call.result) <= Len(call.results)
          /\ Ids(call.result) \subseteq Ids(call.results)
          /\ call.failed => call.result = Take(call.results, call.top_k)

\* the node failed with more documents than reranker_top_n and kept the
\* first ones
C18_Witness ==
    /\ Executed("reranker")
    /\ RerankerFailed
    /\ Len(documents) > config.reranker_top_n
    /\ reranked_documents = Take(documents, config.reranker_top_n)
    /\ call = NoCall

----------------------------------------------------------------------------
(* C19 *)

\* C19: hybrid retrieval returns at most top_k documents, from
\* HybridSearchRetriever.retrieve and from the hybrid_merger node, also
\* when the two legs together supply more than top_k distinct candidates.
C19_HybridAtMostTopK ==
    /\ call.fn = "hybrid_retrieve" => Len(call.result) <= call.top_k
    /\ Executed("hybrid_merger") => Len(documents) <= config.top_k

----------------------------------------------------------------------------
(* C20 *)

FilterBuilders == {"_build_where", "_build_chroma_where", "filter_by_metadata"}

\* the keys of the set K in the order year, topics, subtopic
InKeyOrder(K) == SelectSeq(FilterKeys, LAMBDA k : k \in K)

\* the keys of the clauses of a predicate, in their order
ClauseKeys(where) == [i \in 1..Len(where.clauses) |-> where.clauses[i].key]

\* the predicate has the shape that goes with the keys K: none for no key,
\* one bare clause for one, an AND of one clause per key in order for more
ShapedBy(where, K) ==
    /\ where.wrapper = (IF K = {} THEN "none"
                        ELSE IF Cardinality(K) = 1 THEN "bare" ELSE "$and")
    /\ ClauseKeys(where) = InKeyOrder(K)
    /\ \A i \in 1..Len(where.clauses) :
           where.clauses[i].op \in {"$eq", "$contains"}

SetKeys(f) ==
    {k \in DOMAIN f : IF k = "year" THEN f[k] # None ELSE Truthy(f[k])}

----------------------------------------------------------------------------
(* C21 *)

\* the active cards of the registry that satisfy the test, by position
ActiveWhere(cards, Test(_)) ==
    {i \in 1..Len(cards) : cards[i].status = "active" /\ Test(cards[i])}

\* the name of the first card among the positions S
FirstOf(cards, S) == cards[CHOOSE i \in S : \A j \in S : i <= j].name

\* C21: route_task returns the explicit target_agent if it is registered
\* and active; else the first active agent advertising the requested
\* capability; else the first active agent whose supported_methods holds
\* the requested method; else the Supervisor card; it raises only when none
\* of the first three matched and there is no Supervisor card.
C21_RouteTaskPrecedence ==
    call.fn = "route_task" =>
        LET cards == call.cards
            task == call.task
            named(card) == card.name = task.target_agent
            advertises(card) == task.capability \in card.capabilities
            supports(card) == task.method \in card.supported_methods
            targets == ActiveWhere(cards, named)
            capable == ActiveWhere(cards, advertises)
            able == ActiveWhere(cards, supports)
        IN call.result =
             IF targets # {} THEN task.target_agent
             ELSE IF capable # {} THEN FirstOf(cards, capable)
             ELSE IF able # {} THEN FirstOf(cards, able)
             ELSE IF \E i \in 1..Len(cards) : cards[i].name = "Supervisor"
             THEN "Supervisor"
             ELSE "ValueError"

\* the target is registered but inactive, the first agent with the
\* capability is inactive too, and the second one is chosen
C21_Witness ==
    /\ call.fn = "route_task"
    /\ call.task.target_agent = "VectorRetriever"
    /\ call.task.capability = "retrieval"
    /\ Len(call.cards) = 3
    /\ call.cards[1].status = "inactive"
    /\ "retrieval" \in call.cards[1].capabilities
    /\ call.result = "BM25Retriever"

----------------------------------------------------------------------------
(* C22: run_query_pipeline is idempotent under at-least-once delivery:
   executing it more than once for one request (a redelivery, or a retry
   after an attempt that failed part-way through persisting) leaves the
   Query and QueryResult rows of one successful execution: at most one
   Query row, no execution fails on rows an earlier attempt left, and a
   completed job leaves exactly one row per result of that query. *)
C22_JobIdempotent ==
    job.state # "none" =>
        /\ Cardinality(query_rows) <= 1
        /\ job.error # "IntegrityError"
        /\ job.state = "completed" =>
               \E query_id \in query_rows :
                   result_rows = Persisted(query_id, job.found, Len(job.found))

----------------------------------------------------------------------------
(* C29: every retrieval_method that QueryRequestSerializer accepts resolves
   to a retriever, so a validated request never fails with the
   unknown-method error, neither in QueryAPIView.post nor in the
   run_query_pipeline job it falls back to, and the job of a request
   answered with 202 does not use up its retries on that error. *)
C29_AcceptedMethodResolves ==
    job.state # "none" =>
        /\ ~get_retriever_raises(job.method)
        /\ job.error # "ValueError"

----------------------------------------------------------------------------
\* the compiled objects the finished calls returned to their callers
Received ==
    {callers[t].result :
        t \in {u \in Threads : callers[u].at = "outside" /\ callers[u].calls > 0}}

(* C23: across any interleaving of concurrent get_compiled_graph calls
   without force_rebuild, the graph is compiled at most once and every
   caller receives the same instance. *)
C23_CompiledOnce ==
    (\A i \in 1..Len(instances) : ~instances[i].force_rebuild) =>
        /\ Len(instances) <= 1
        /\ Cardinality(Received) <= 1

----------------------------------------------------------------------------
(* C30: the graph returned by get_compiled_graph(checkpointer=c) is one
   compiled with checkpointer c, whatever calls came before and whatever
   graph is already cached. *)
C30_ReturnedGraphHasCheckpointer ==
    \A t \in Threads :
        (callers[t].at = "outside" /\ callers[t].calls > 0) =>
            instances[callers[t].result].checkpointer = callers[t].checkpointer

----------------------------------------------------------------------------
(* C24: the edge list of get_agent_flow_diagram reflects the topology of
   the graph build_graph builds: every hop from a node to the next node
   that a run takes is a listed edge. *)
C24_EveryHopListed ==
    [][pc' # pc => <<FlowName(pc), FlowName(pc')>> \in FlowEdges]_vars

----------------------------------------------------------------------------
\* the trimmed content of a document
Trimmed(doc) == [page_content(doc) EXCEPT !.space = FALSE]

\* the position in docs of the first document with the trimmed content of doc
FirstWith(docs, doc) ==
    CHOOSE i \in 1..Len(docs) :
        /\ Trimmed(docs[i]) = Trimmed(doc)
        /\ \A j \in 1..(i - 1) : Trimmed(docs[j]) # Trimmed(doc)

\* docs is, in first-occurrence order, the first document of each trimmed
\* content found in the searches' results taken in variant order
FirstOccurrences(docs, found) ==
    /\ \A i, j \in 1..Len(docs) :
           i # j => Trimmed(docs[i]) # Trimmed(docs[j])
    /\ \A d \in Range(found) : \E e \in Range(docs) : Trimmed(e) = Trimmed(d)
    /\ \A i \in 1..Len(docs) :
           /\ docs[i] \in Range(found)
           /\ docs[i] = found[FirstWith(found, docs[i])]
    /\ \A i, j \in 1..Len(docs) :
           i < j => FirstWith(found, docs[i]) < FirstWith(found, docs[j])

(* C25: vector_retriever searches once per query variant in list order and
   deduplicates by trimmed content across all variants: no two returned
   documents have equal trimmed content, each kept document is the first
   occurrence across variants, and the output is in first-occurrence order. *)
C25_DedupByTrimmedContent ==
    /\ call.fn = "vector_search" =>
           FirstOccurrences(call.all_docs, Concat(call.results))
    /\ "vector_retriever" \in Range(execution_trace) =>
           \A i, j \in 1..Len(documents) :
               i # j => Trimmed(documents[i]) # Trimmed(documents[j])

\* two variants returned the same text, once with white space around it,
\* and one document was kept
C25_Witness ==
    /\ call.fn = "vector_search"
    /\ Len(call.results) > 1
    /\ \E d, e \in Range(Concat(call.results)) :
           d # e /\ Trimmed(d) = Trimmed(e)
    /\ Len(call.all_docs) = 1

----------------------------------------------------------------------------
\* one retriever's term for document d: weight / (60 + rank + 1) at the
\* rank the retriever gave it, nothing if it did not return it
OneTerm(d, list, weight) ==
    IF PositionOf(d, list) = 0 THEN 0 ELSE RRFAt(PositionOf(d, list), weight)

\* the sum of the two retrievers' terms
FusedScore(d) ==
    OneTerm(d, call.vector_results, call.weights[1])
        + OneTerm(d, call.bm25_results, call.weights[2])

(* C26: in HybridSearchRetriever.retrieve the score of every returned
   document is the sum, over the retrievers that returned it, of
   weight / (60 + rank + 1), each retriever contributing at most one term
   per document, and the results are ordered by that score, highest first.
   The score is compared after the rounding to six places the code
   applies. *)
C26_FusedScoreOneTermEach ==
    call.fn = "hybrid_retrieve" =>
        /\ \A i \in 1..Len(call.result) :
               call.scores[i] = round6(FusedScore(call.result[i]))
        /\ \A i, j \in 1..Len(call.result) :
               i < j => FusedScore(call.result[i]) >= FusedScore(call.result[j])

----------------------------------------------------------------------------
\* the error a node's stage-level failure path returns
FailureOf(node) ==
    CASE node = "query_analyzer" -> "Query analysis failed"
      [] node = "query_expander" -> "Query expansion failed"
      [] node = "self_query_constructor" -> "Self-query construction failed"
      [] node = "vector_retriever" -> "Vector retrieval failed"
      [] node = "bm25_retriever" -> "BM25 retrieval failed"
      [] node = "hybrid_merger" -> "Hybrid merge failed"
      [] node = "hypothetical_question_retriever" ->
             "Hypothetical question retrieval failed"
      [] node = "reranker" -> "Reranking failed"
      [] node = "compressor" -> "Compression failed"
      [] node = "answer_generator" -> "Answer generation failed"

\* the positions in agent_messages of the messages of failure paths
Failures == {i \in 1..Len(agent_messages) : agent_messages[i].message = "Error"}

(* C27: error is non-null exactly when at least one node took its
   stage-level failure path, and it holds the message of the last node that
   failed: a node that succeeds later neither clears nor overwrites it.
   This holds after every node, so in particular at the end of the run. *)
C27_ErrorIsLastFailure ==
    IF Failures = {} THEN error = None
    ELSE error = FailureOf(agent_messages[CHOOSE i \in Failures :
                                              \A j \in Failures : j <= i].agent)

\* a finished run in which two nodes failed and a node after them succeeded
C27_Witness ==
    /\ pc = "END"
    /\ Cardinality(Failures) = 2
    /\ LastMessage.message # "Error"
    /\ error = "Reranking failed"

----------------------------------------------------------------------------
\* the node of the strategy a retrieval_method names
StrategyNode(method) ==
    CASE method = "vector" -> "vector_retriever"
      [] method = "bm25" -> "bm25_retriever"
      [] method = "hybrid" -> "hybrid_merger"
      [] method = "self_query" -> "self_query_constructor"
      [] method = "hypothetical_questions" -> "hypothetical_question_retriever"
      [] OTHER -> None

(* C28, as stated: at the end of every run retrieval_method names the
   retrieval strategy whose node executed. *)
C28_MethodNamesExecutedStrategy ==
    pc = "END" =>
        /\ retrieval_method \in Methods
        /\ Executed(StrategyNode(retrieval_method))

(* C28, amended: at the end of every run exactly one strategy node has
   executed, and it is the node of the strategy retrieval_method names when
   it names one, and vector_retriever when it is "expand" (left by the
   supervisor when it routed through query_expander) or no route name. *)
C28_MethodRoutesToExecuted ==
    pc = "END" =>
        \A node \in RetrievalNodes :
            Executed(node) <=>
                node = (IF retrieval_method \in Methods
                        THEN StrategyNode(retrieval_method)
                        ELSE "vector_retriever")

\* a finished run that went through query_expander: retrieval_method is
\* still "expand" and vector_retriever is the strategy node that executed
C28_Witness ==
    /\ pc = "END"
    /\ retrieval_method = "expand"
    /\ Executed("vector_retriever")

====
